---- MODULE Spec2Model ----
(***************************************************************************)
(* Model of the air-purifier analysis scripts:                             *)
(*   air_quality_analysis.py          (script = "plain")                   *)
(*   air_quality_analysis_gsheets.py  (script = "gsheets")                 *)
(* One run of a script is load -> synthesize the datetime index ->         *)
(* describe -> resample -> plot -> return (-> export to Google Sheets).    *)
(* Instants are whole seconds; day d starts at d * SecondsPerDay.          *)
(* Sensor values are integers; a mean is the exact fraction                *)
(* [num |-> sum, den |-> n], and NaN is a value of its own.                *)
(* The frame is never changed once loaded and the index is the regular     *)
(* range date_range made: the state holds which file the frame was read    *)
(* from and the start, periods and freq of the index; the columns and the  *)
(* instants are the sequences read_excel and date_range give for them.     *)
(***************************************************************************)
EXTENDS Integers, Sequences, FiniteSets, TLC

\* ---------------------------------------------------------------- bounds
MaxCount == 12      \* every row count 0..MaxCount is tried,
MaxSeed == 1        \* each with the file contents 0..MaxSeed
MaxDay == 1         \* a run happens on day 0..MaxDay
MaxExports == 2     \* the script is started again until MaxExports exports succeeded

\* ... and, with the file content 0, the row counts around which the
\* granularity decision changes: 2-minute and 1-minute spacing, the switch
\* to seconds, 43-second spacing
DenseCounts == {720, 721, 1440, 1441, 2000}

\* ... and one file with more rows than a day has seconds. It is run through
\* the plain script only (the index is synthesized by the same code in both).
OverflowCounts == {86401}

\* ------------------------------------------------------ program constants
MinutesPerDay == 1440
SecondsPerDay == 86400
SecondsPerMinute == 60

Max(a, b) == IF a >= b THEN a ELSE b
Min(a, b) == IF a <= b THEN a ELSE b

\* The function f on 1..n as the sequence <<f[1], ..., f[n]>>.
List(f) == f \o <<>>

\* Python's a // b on non-negative ints: the quotient, or ZeroDivisionError.
FloorDivNoRaise(a, b) ==
    IF b = 0 THEN [exc |-> "none", val |-> 0]
             ELSE [exc |-> "none", val |-> a \div b]

FloorDiv(a, b) ==
    IF b = 0 THEN [exc |-> "ZeroDivisionError", val |-> 0]
             ELSE [exc |-> "none", val |-> a \div b]

\* ------------------------------------------------------------ the inputs
Missing == [exists |-> FALSE, rows |-> 0, seed |-> 0]

Files ==
    {Missing} \cup
    {[exists |-> TRUE, rows |-> n, seed |-> k] : n \in 0..MaxCount, k \in 0..MaxSeed} \cup
    {[exists |-> TRUE, rows |-> n, seed |-> 0] : n \in DenseCounts \cup OverflowCounts}

\* What pd.read_excel returns for a file: two columns of f.rows values.
read_excel(f) ==
    [c1 |-> [i \in 1..f.rows |-> 19 + ((i + f.seed) % 3)],
     c2 |-> [i \in 1..f.rows |-> 40 + ((3 * i + 2 * f.seed) % 7)]]

Unbound == [bound |-> FALSE, rows |-> 0, seed |-> 0]

\* The frame read from file f.
Frame(f) == [bound |-> TRUE, rows |-> f.rows, seed |-> f.seed]

\* df.columns = [...]: the first column is the oxygen reading, the second the
\* AQI, in both scripts.
O2(d) == read_excel(d).c1
AQI(d) == read_excel(d).c2

\* len(df)
len(d) == d.rows

\* ---------------------------------------------------- timeline synthesis
\* pd.date_range(start, periods, freq): periods instants, freq apart.
date_range_from_second(start, periods, freq) ==
    [i \in 1..periods |-> start + i * freq]

date_range(start, periods, freq) ==
    [i \in 1..periods |-> start + (i - 1) * freq]

\* f'{n}min' and f'{n}s' as a number of seconds
FreqSecondsAsMinutes(fr) == fr.n * SecondsPerMinute

FreqSeconds(fr) == IF fr.unit = "min" THEN fr.n * SecondsPerMinute ELSE fr.n

\* datetime.now().replace(hour=0, minute=0, second=0, microsecond=0)
StartOfDay(day) == day * SecondsPerDay

NoFreq == [unit |-> "none", n |-> 0]

\* The granularity decision: the freq handed to date_range, or the exception
\* raised while computing it.
IntervalAlwaysMinutes(time_intervals) ==
    LET q == FloorDiv(MinutesPerDay, time_intervals)
    IN  [exc |-> q.exc, freq |-> [unit |-> "min", n |-> Max(1, q.val)]]

IntervalNoFloor(time_intervals) ==
    IF time_intervals <= MinutesPerDay
    THEN LET q == FloorDiv(MinutesPerDay + time_intervals - 1, time_intervals)
         IN  [exc |-> q.exc, freq |-> [unit |-> "min", n |-> Max(1, q.val)]]
    ELSE LET q == FloorDiv(SecondsPerDay, time_intervals)
         IN  [exc |-> q.exc, freq |-> [unit |-> "s", n |-> Max(1, q.val)]]

\* lines 28-35 of air_quality_analysis.py, 92-99 of the gsheets script
Interval(time_intervals) ==
    IF time_intervals <= MinutesPerDay
    THEN LET q == FloorDiv(MinutesPerDay, time_intervals)
         IN  [exc |-> q.exc, freq |-> [unit |-> "min", n |-> Max(1, q.val)]]
    ELSE LET q == FloorDiv(SecondsPerDay, time_intervals)
         IN  [exc |-> q.exc, freq |-> [unit |-> "s", n |-> Max(1, q.val)]]

\* ------------------------------------------------------------ statistics
NaN == [num |-> 0, den |-> 0]
Number(v) == [num |-> v, den |-> 1]

RECURSIVE SumRange(_, _, _)
SumRange(xs, lo, hi) ==
    IF lo > hi THEN 0
    ELSE IF lo = hi THEN xs[lo]
    ELSE LET mid == (lo + hi) \div 2
         IN  SumRange(xs, lo, mid) + SumRange(xs, mid + 1, hi)

RECURSIVE SumSqRange(_, _, _)
SumSqRange(xs, lo, hi) ==
    IF lo > hi THEN 0
    ELSE IF lo = hi THEN xs[lo] * xs[lo]
    ELSE LET mid == (lo + hi) \div 2
         IN  SumSqRange(xs, lo, mid) + SumSqRange(xs, mid + 1, hi)

RECURSIVE MinRange(_, _, _)
MinRange(xs, lo, hi) ==
    IF lo >= hi THEN xs[lo]
    ELSE Min(MinRange(xs, lo, (lo + hi) \div 2),
             MinRange(xs, ((lo + hi) \div 2) + 1, hi))

RECURSIVE MaxRange(_, _, _)
MaxRange(xs, lo, hi) ==
    IF lo >= hi THEN xs[lo]
    ELSE Max(MaxRange(xs, lo, (lo + hi) \div 2),
             MaxRange(xs, ((lo + hi) \div 2) + 1, hi))

\* The arithmetic mean of xs[lo..hi]; NaN when the slice is empty.
MeanRange(xs, lo, hi) ==
    IF lo > hi THEN NaN ELSE [num |-> SumRange(xs, lo, hi), den |-> hi - lo + 1]

\* The number of xs[lo..hi] that are <= v.
RECURSIVE CountAtMost(_, _, _, _)
CountAtMost(xs, v, lo, hi) ==
    IF lo > hi THEN 0
    ELSE IF lo = hi THEN (IF xs[lo] <= v THEN 1 ELSE 0)
    ELSE CountAtMost(xs, v, lo, (lo + hi) \div 2)
         + CountAtMost(xs, v, ((lo + hi) \div 2) + 1, hi)

\* The k-th smallest of the values, given least, the smallest one, and
\* atMost[i] = how many of them are <= least + i - 1.
NthSmallest(atMost, least, k) ==
    least - 1 + CHOOSE i \in 1..Len(atMost) :
                    /\ atMost[i] >= k
                    /\ i > 1 => atMost[i - 1] < k

\* The quantile j/4 of n values by linear interpolation between the two
\* nearest order statistics lo and hi, as a fraction over 4.
Interpolate(lo, hi, rem) == [num |-> 4 * lo + rem * (hi - lo), den |-> 4]

Quantile(atMost, least, n, j) ==
    Interpolate(NthSmallest(atMost, least, (((n - 1) * j) \div 4) + 1),
                NthSmallest(atMost, least, IF ((n - 1) * j) % 4 = 0
                                           THEN (((n - 1) * j) \div 4) + 1
                                           ELSE (((n - 1) * j) \div 4) + 2),
                ((n - 1) * j) % 4)

Stats(xs, n, least, most, atMost) ==
    [count |-> Number(n),
     mean  |-> MeanRange(xs, 1, n),
     std   |-> IF n <= 1 THEN NaN
               ELSE [n |-> n, sum |-> SumRange(xs, 1, n),
                     sumsq |-> SumSqRange(xs, 1, n)],
     min   |-> IF n = 0 THEN NaN ELSE Number(least),
     q25   |-> IF n = 0 THEN NaN ELSE Quantile(atMost, least, n, 1),
     q50   |-> IF n = 0 THEN NaN ELSE Quantile(atMost, least, n, 2),
     q75   |-> IF n = 0 THEN NaN ELSE Quantile(atMost, least, n, 3),
     max   |-> IF n = 0 THEN NaN ELSE Number(most)]

Histogram(xs, n, least, most) ==
    List([i \in 1..(most - least + 1) |-> CountAtMost(xs, least + i - 1, 1, n)])

\* One column of df.describe(): count, mean, std, min, 25%, 50%, 75%, max.
\* std (the sample deviation, ddof = 1) is carried as the three sums that
\* determine it.
DescribeRange(xs, n, least, most) ==
    Stats(xs, n, least, most, Histogram(xs, n, least, most))

DescribeColumn(xs, n) ==
    IF n = 0
    THEN Stats(xs, 0, 0, 0, <<>>)
    ELSE DescribeRange(xs, n, MinRange(xs, 1, n), MaxRange(xs, 1, n))

StatRows == <<"count", "mean", "std", "min", "q25", "q50", "q75", "max">>

NoSummary == <<>>

\* df.describe(): one row per statistic, one value per column.
describe(d) ==
    LET o == DescribeColumn(O2(d), len(d))
        a == DescribeColumn(AQI(d), len(d))
    IN  List([r \in 1..Len(StatRows) |->
            [stat |-> StatRows[r], O2 |-> o[StatRows[r]], AQI |-> a[StatRows[r]]]])

\* ------------------------------------------------------------ resampling
\* The number of instants of the ascending sequence ix that are < x
\* (the bin edge position), between lo and hi.
RECURSIVE CountBelow(_, _, _, _)
CountBelow(ix, x, lo, hi) ==
    IF lo >= hi THEN lo
    ELSE LET mid == (lo + hi + 1) \div 2
         IN  IF ix[mid] < x THEN CountBelow(ix, x, mid, hi)
                            ELSE CountBelow(ix, x, lo, mid - 1)

NotResampled == [done |-> FALSE, rows |-> <<>>]

\* df.resample(rule).mean() for a rule of every seconds: one row per bin
\* from the bin of the first instant to the bin of the last one (bins are
\* closed and labelled on the left, and aligned to midnight); the mean of
\* an empty bin is NaN.
resample_every(d, ix, every) ==
    LET n == len(d)
        first == IF n = 0 THEN 0 ELSE ix[1] \div every
        last == IF n = 0 THEN -1 ELSE ix[n] \div every
    IN  [done |-> TRUE,
         rows |-> List([k \in 1..(last - first + 1) |->
            LET b == first + k - 1
                lo == CountBelow(ix, b * every, 0, n) + 1
                hi == CountBelow(ix, (b + 1) * every, 0, n)
            IN  [t   |-> b * every,
                 O2  |-> MeanRange(O2(d), lo, hi),
                 AQI |-> MeanRange(AQI(d), lo, hi)]])]

HasData(r) == r.AQI # NaN

\* 1-minute bins, with the rows of the empty bins dropped
resample_mean_dropna(d, ix) ==
    [done |-> TRUE,
     rows |-> SelectSeq(resample_every(d, ix, SecondsPerMinute).rows, HasData)]

\* 1-hour bins
resample_mean_hourly(d, ix) == resample_every(d, ix, 60 * SecondsPerMinute)

\* df.resample('T').mean(): 'T' is one minute
resample_mean(d, ix) == resample_every(d, ix, SecondsPerMinute)

\* --------------------------------------------------- the Google worksheet
Text(str) == [s |-> str, v |-> NaN]
Cell(val) == [s |-> "", v |-> val]

NoWorksheet == [exists |-> FALSE, cells |-> <<>>]

\* What the 'Statistical Summary' worksheet may hold before the first run:
\* nothing, or an older and larger table.
StaleCells ==
    List([i \in 1..11 |-> <<Text("old"), Text("old"), Text("old"), Text("old")>>])

Worksheets ==
    {NoWorksheet,
     [exists |-> TRUE, cells |-> <<>>],
     [exists |-> TRUE, cells |-> StaleCells]}

\* [header] + data_to_upload of dataframe.reset_index()
Upload(summary) ==
    <<  <<Text("index"), Text("O2_Percentage"), Text("AQI")>>  >> \o
    List([r \in 1..Len(summary) |->
        <<Text(summary[r].stat), Cell(summary[r].O2), Cell(summary[r].AQI)>>])

\* sheet.update(range_name='A1', values): the cells the values cover are
\* overwritten, the others are left as they are.
update(cells, values) ==
    List([i \in 1..Max(Len(cells), Len(values)) |->
        IF i > Len(values) THEN cells[i]
        ELSE IF i > Len(cells) THEN values[i]
        ELSE List([j \in 1..Max(Len(cells[i]), Len(values[i])) |->
                IF j <= Len(values[i]) THEN values[i][j] ELSE cells[i][j]])])

\* sheet.clear()
clear_nothing(cells) == cells

clear(cells) == <<>>

\* Where the export can fail: reading credentials.json, opening the
\* spreadsheet (not found, or another API error), sheet.clear(), sheet.update().
ExportFaults ==
    {"none", "credentials", "spreadsheet", "api_open", "api_clear", "api_update"}

\* The except clause that handles a fault: the status the function ends with
\* and whether the exception leaves the function.
HandlerNoCatchAll(fault) ==
    CASE fault = "none"        -> [status |-> "exported", raised |-> FALSE]
      [] fault = "credentials" -> [status |-> "credentials_missing", raised |-> FALSE]
      [] fault = "spreadsheet" -> [status |-> "spreadsheet_not_found", raised |-> FALSE]
      [] OTHER                 -> [status |-> "not_run", raised |-> TRUE]

Handler(fault) ==
    CASE fault = "none"        -> [status |-> "exported", raised |-> FALSE]
      [] fault = "credentials" -> [status |-> "credentials_missing", raised |-> FALSE]
      [] fault = "spreadsheet" -> [status |-> "spreadsheet_not_found", raised |-> FALSE]
      [] OTHER                 -> [status |-> "unexpected_error", raised |-> FALSE]

\* The worksheet after export_stats_to_google_sheet(summary, ...) hit fault.
SheetAfter(ws, summary, fault) ==
    IF fault \in {"credentials", "spreadsheet", "api_open"} THEN ws
    ELSE IF fault = "api_clear"
         THEN [exists |-> TRUE, cells |-> ws.cells]
    ELSE IF fault = "api_update"
         THEN [exists |-> TRUE, cells |-> clear(ws.cells)]
    ELSE [exists |-> TRUE, cells |-> update(clear(ws.cells), Upload(summary))]

\* ------------------------------------------------------------- the state
VARIABLES
    script,               \* which script runs: "plain" or "gsheets"
    file,                 \* the Excel file on disk
    worksheet,            \* the 'Statistical Summary' worksheet
    exports,              \* how many exports succeeded so far
    pc,                   \* the next step of the run
    error,                \* the exception that ended the run, or "none"
    console,              \* what was printed
    df,                   \* the data frame (Unbound before the load)
    start_time,           \* the epoch, -1 before it is taken
    index,                \* df.index once synthesized: start, periods, freq
    statistical_summary,
    df_resampled,
    plots,                \* the image files saved
    export_status         \* how export_stats_to_google_sheet ended

vars == <<script, file, worksheet, exports, pc, error, console, df, start_time,
          index, statistical_summary, df_resampled, plots, export_status>>

NoIndex == [start |-> -1, periods |-> 0, freq |-> NoFreq]

\* the instants of an index
Instants(ix) == date_range(ix.start, ix.periods, FreqSeconds(ix.freq))

Fresh ==
    /\ pc = "load"
    /\ error = "none"
    /\ console = {}
    /\ df = Unbound
    /\ start_time = -1
    /\ index = NoIndex
    /\ statistical_summary = NoSummary
    /\ df_resampled = NotResampled
    /\ plots = {}
    /\ export_status = "not_run"

Init ==
    /\ script \in {"plain", "gsheets"}
    /\ file \in Files
    /\ worksheet \in Worksheets
    /\ script = "plain" => worksheet = NoWorksheet
    /\ file.rows \in OverflowCounts => script = "plain"
    /\ exports = 0
    /\ Fresh

world == <<script, file, worksheet, exports>>

\* pd.read_excel and df.columns = [...], with the gsheets script's except
\* clause around them.
Load ==
    /\ pc = "load"
    /\ IF file.exists
       THEN /\ df' = Frame(file)
            /\ console' = console \cup {"loaded"}
            /\ pc' = "index"
            /\ error' = error
       ELSE IF script = "gsheets"
       THEN /\ df' = df
            /\ console' = console \cup {"warning_sample_data"}
            /\ pc' = "index"
            /\ error' = error
       ELSE /\ df' = df
            /\ console' = console
            /\ pc' = "crashed"
            /\ error' = "FileNotFoundError"
    /\ UNCHANGED <<world, start_time, index, statistical_summary, df_resampled,
                   plots, export_status>>

\* start_time, time_intervals and the if/else that sets df.index
Synthesize ==
    /\ pc = "index"
    /\ \E day \in 0..MaxDay :
        /\ start_time' = StartOfDay(day)
        /\ IF ~df.bound
           THEN /\ pc' = "crashed"
                /\ error' = "UnboundLocalError"
                /\ index' = index
           ELSE LET time_intervals == len(df)
                    iv == Interval(time_intervals)
                IN  IF iv.exc # "none"
                    THEN /\ pc' = "crashed"
                         /\ error' = iv.exc
                         /\ index' = index
                    ELSE /\ pc' = "describe"
                         /\ error' = error
                         /\ index' = [start |-> start_time',
                                      periods |-> time_intervals,
                                      freq |-> iv.freq]
    /\ UNCHANGED <<world, console, df, statistical_summary, df_resampled, plots,
                   export_status>>

\* statistical_summary = df.describe() and the prints that follow
Describe ==
    /\ pc = "describe"
    /\ statistical_summary' = describe(df)
    /\ console' = console \cup {"summary"}
    /\ pc' = "resample"
    /\ UNCHANGED <<world, error, df, start_time, index, df_resampled, plots,
                   export_status>>

\* df_resampled = df.resample('T').mean()
Resample ==
    /\ pc = "resample"
    /\ df_resampled' = resample_mean(df, Instants(index))
    /\ console' = console \cup {"resample_note"}
    /\ pc' = "plot"
    /\ UNCHANGED <<world, error, df, start_time, index, statistical_summary, plots,
                   export_status>>

\* the two time-series plots and the histograms
Plot ==
    /\ pc = "plot"
    /\ plots' = {"aqi_time_series.png", "oxygen_time_series.png",
                 "distributions_plot.png"}
    /\ pc' = "return"
    /\ UNCHANGED <<world, error, console, df, start_time, index,
                   statistical_summary, df_resampled, export_status>>

\* The end of analyze_air_quality_data: the plain script prints the
\* correlation and is done; the gsheets script returns the summary, and
\* __main__ goes on to the export.
Return ==
    /\ pc = "return"
    /\ IF script = "plain"
       THEN /\ console' = console \cup {"correlation", "analysis_complete"}
            /\ pc' = "done"
       ELSE /\ console' = console \cup {"analysis_complete"}
            /\ pc' = IF statistical_summary # NoSummary THEN "export" ELSE "done"
    /\ UNCHANGED <<world, error, df, start_time, index, statistical_summary,
                   df_resampled, plots, export_status>>

\* export_stats_to_google_sheet(stats_summary, google_sheet_name)
Export ==
    /\ pc = "export"
    /\ \E fault \in ExportFaults :
        LET h == Handler(fault)
        IN  /\ worksheet' = SheetAfter(worksheet, statistical_summary, fault)
            /\ export_status' = h.status
            /\ exports' = IF h.status = "exported" THEN exports + 1 ELSE exports
            /\ console' = console \cup {"exporting", h.status}
            /\ pc' = IF h.raised THEN "crashed" ELSE "done"
            /\ error' = IF h.raised THEN "Exception" ELSE error
    /\ UNCHANGED <<script, file, df, start_time, index, statistical_summary,
                   df_resampled, plots>>

\* The script is started again, on the same file.
Rerun ==
    /\ pc \in {"done", "crashed"}
    /\ exports < MaxExports
    /\ pc' = "load"
    /\ error' = "none"
    /\ console' = {}
    /\ df' = Unbound
    /\ start_time' = -1
    /\ index' = NoIndex
    /\ statistical_summary' = NoSummary
    /\ df_resampled' = NotResampled
    /\ plots' = {}
    /\ export_status' = "not_run"
    /\ UNCHANGED world

Next ==
    \/ Load
    \/ Synthesize
    \/ Describe
    \/ Resample
    \/ Plot
    \/ Return
    \/ Export
    \/ Rerun

Spec == Init /\ [][Next]_vars

\* ================================================================ claims
Indexed == index # NoIndex

\* the spacing, in seconds, that the granularity rule gives count rows
Spacing(count) ==
    IF count <= MinutesPerDay
    THEN SecondsPerMinute * Max(1, MinutesPerDay \div count)
    ELSE Max(1, SecondsPerDay \div count)

\* the 1-minute bucket of the i-th instant of the index
At(i) == Instants(index)[i]
BucketOf(i) == At(i) \div SecondsPerMinute

\* C1: for a count >= 1 the synthesized index holds exactly count instants,
\* the first one the start of the current day, each later one a constant
\* step after the one before: max(1, 1440 div count) minutes up to 1440
\* rows, max(1, 86400 div count) seconds above.
C1_Timeline ==
    Indexed =>
        /\ len(df) >= 1
        /\ DOMAIN Instants(index) = 1..len(df)
        /\ start_time % SecondsPerDay = 0
        /\ At(1) = start_time
        /\ index.freq = IF len(df) <= MinutesPerDay
                        THEN [unit |-> "min", n |-> Max(1, MinutesPerDay \div len(df))]
                        ELSE [unit |-> "s", n |-> Max(1, SecondsPerDay \div len(df))]
        /\ \A i \in 1..(len(df) - 1) :
              /\ At(i) < At(i + 1)
              /\ At(i + 1) - At(i) = Spacing(len(df))

C1_Witness ==
    /\ pc = "describe"
    /\ len(df) = 2000
    /\ index.freq = [unit |-> "s", n |-> 43]
    /\ At(2000) = start_time + 1999 * 43

\* C2: a file of zero rows ends the run with an exception while the index is
\* synthesized, and no index, summary, resampled series or plot exists
\* afterwards.
C2_ZeroRows ==
    (df.bound /\ len(df) = 0 /\ pc # "index") =>
        /\ pc = "crashed"
        /\ error = "ZeroDivisionError"
        /\ index = NoIndex
        /\ statistical_summary = NoSummary
        /\ df_resampled = NotResampled
        /\ plots = {}
        /\ export_status = "not_run"

C2_Witness ==
    /\ df.bound
    /\ len(df) = 0
    /\ pc = "crashed"
    /\ error = "ZeroDivisionError"

\* how many instants of the index open a new 1-minute bucket
\* (the index ascends, so this is the number of non-empty buckets)
NonEmptyBuckets ==
    Cardinality({i \in 1..len(df) : i = 1 \/ BucketOf(i - 1) < BucketOf(i)})

DataRows ==
    Cardinality({k \in 1..Len(df_resampled.rows) : df_resampled.rows[k].AQI # NaN})

\* C3 as stated: the resampled series has a row only for a bucket that holds
\* an observation, so it has as many rows as there are non-empty buckets.
C3_Original ==
    df_resampled.done =>
        /\ \A k \in 1..Len(df_resampled.rows) :
              /\ df_resampled.rows[k].AQI # NaN
              /\ df_resampled.rows[k].O2 # NaN
        /\ Len(df_resampled.rows) = NonEmptyBuckets

\* C3 as amended: the resampled series has one row for every 1-minute bucket
\* from the bucket of the first instant to the bucket of the last one; the
\* rows with a mean are those of the non-empty buckets, and the row of an
\* empty bucket holds NaN for both columns.
C3_Amended ==
    df_resampled.done =>
        /\ Len(df_resampled.rows) = BucketOf(len(df)) - BucketOf(1) + 1
        /\ \A k \in 1..Len(df_resampled.rows) :
              /\ df_resampled.rows[k].t = (BucketOf(1) + k - 1) * SecondsPerMinute
              /\ df_resampled.rows[k].AQI = NaN <=> df_resampled.rows[k].O2 = NaN
        /\ \A i \in 1..len(df) :
              df_resampled.rows[BucketOf(i) - BucketOf(1) + 1].AQI # NaN
        /\ DataRows = NonEmptyBuckets

C3_Witness ==
    /\ pc = "plot"
    /\ len(df) = 720
    /\ Len(df_resampled.rows) = 1439
    /\ df_resampled.rows[1].AQI # NaN
    /\ df_resampled.rows[2].AQI = NaN
    /\ df_resampled.rows[3].AQI # NaN

\* C4: when the index is at 1-minute spacing (721..1440 rows), the resampled
\* series has one row per observation, in order, labelled with its instant
\* and holding its values unchanged.
C4_Singletons ==
    (df_resampled.done /\ len(df) \in 721..MinutesPerDay) =>
        /\ index.freq = [unit |-> "min", n |-> 1]
        /\ Len(df_resampled.rows) = len(df)
        /\ \A i \in 1..len(df) :
              /\ df_resampled.rows[i].t = At(i)
              /\ df_resampled.rows[i].O2 = [num |-> O2(df)[i], den |-> 1]
              /\ df_resampled.rows[i].AQI = [num |-> AQI(df)[i], den |-> 1]

C4_Witness ==
    /\ pc = "plot"
    /\ len(df) = MinutesPerDay
    /\ Len(df_resampled.rows) = MinutesPerDay
    /\ df_resampled.rows[MinutesPerDay].AQI = Number(AQI(df)[MinutesPerDay])

\* C5 as stated: for every count >= 1 the last instant of the index is
\* earlier than the start of the next day.
C5_Original ==
    Indexed =>
        /\ At(len(df)) < start_time + SecondsPerDay
        /\ (len(df) - 1) * FreqSeconds(index.freq) < SecondsPerDay

\* C5 as amended: for every count from 1 to 86400 the last instant of the
\* index is earlier than the start of the next day.
C5_Amended ==
    (Indexed /\ len(df) <= SecondsPerDay) =>
        /\ At(len(df)) < start_time + SecondsPerDay
        /\ (len(df) - 1) * FreqSeconds(index.freq) < SecondsPerDay

C5_Witness ==
    /\ Indexed
    /\ len(df) = 2000
    /\ At(2000) - start_time = 1999 * 43

\* C6: when the spacing is at most one minute (more than 1440 rows, or a
\* minute spacing of 1), every 1-minute bucket from the first instant's to
\* the last instant's holds an observation: no resampled row is empty.
C6_NoEmptyBucket ==
    (df_resampled.done /\ len(df) >= 1
        /\ (len(df) > MinutesPerDay \/ MinutesPerDay \div len(df) = 1)) =>
        /\ Len(df_resampled.rows) = BucketOf(len(df)) - BucketOf(1) + 1
        /\ \A k \in 1..Len(df_resampled.rows) :
              /\ df_resampled.rows[k].AQI.den >= 1
              /\ df_resampled.rows[k].O2.den >= 1

C6_Witness ==
    /\ pc = "plot"
    /\ len(df) = 2000
    /\ Len(df_resampled.rows) = 1433
    /\ df_resampled.rows[1].AQI.den = 2
    /\ df_resampled.rows[1433].AQI.den = 1

\* C7: after a successful export the worksheet holds exactly the header row
\* and the rows of the summary, from A1 on, whatever it held before and
\* however many exports went before.
C7_Overwrite ==
    export_status = "exported" =>
        /\ worksheet.exists
        /\ worksheet.cells = Upload(statistical_summary)
        /\ Len(worksheet.cells) = 1 + Len(StatRows)

C7_Witness ==
    /\ export_status = "exported"
    /\ exports = 2
    /\ worksheet.cells = Upload(statistical_summary)

\* C8: the export starts only after the summary was printed and returned,
\* and a failure of the export is reported by the export itself: the run
\* ends normally, never with an exception, once the export has started.
C8_ExportContained ==
    /\ (pc = "export" \/ "exporting" \in console) =>
          /\ script = "gsheets"
          /\ "summary" \in console
          /\ "analysis_complete" \in console
          /\ statistical_summary # NoSummary
    /\ "exporting" \in console =>
          /\ pc = "done"
          /\ error = "none"
          /\ export_status # "not_run"
          /\ export_status \in console

C8_Witness ==
    /\ pc = "done"
    /\ export_status = "credentials_missing"
    /\ "summary" \in console
    /\ error = "none"

\* C9 as stated: when the file is not found, the gsheets script warns and
\* carries on with sample data, through to the summary.
C9_SampleData ==
    (script = "gsheets" /\ ~file.exists /\ "warning_sample_data" \in console) =>
        /\ error = "none"
        /\ pc # "crashed"
        /\ pc # "index" => df.bound

\* C10: the spacing in seconds never grows with the count, across the switch
\* from minutes to seconds too, and is at least one second.
C10_Monotone ==
    pc = "describe" =>
        \A a \in 1..len(df) :
            /\ FreqSeconds(index.freq) <= FreqSeconds(Interval(a).freq)
            /\ FreqSeconds(Interval(a).freq) >= 1
            /\ a > 1 => FreqSeconds(Interval(a).freq) <= FreqSeconds(Interval(a - 1).freq)

C10_Witness ==
    /\ pc = "describe"
    /\ len(df) = 1441
    /\ FreqSeconds(index.freq) = 59
    /\ FreqSeconds(Interval(MinutesPerDay).freq) = 60

====
